---- MODULE Spec2Model ----
(***************************************************************************)
(* Model of the transitworld client: the Request builder, the search/get   *)
(* calls with their outgoing HTTP request, the serde deserialization of    *)
(* the response body into SearchResponse<T> / Option<T>, and the Spec      *)
(* wire names.                                                             *)
(***************************************************************************)
EXTENDS Integers, Sequences, FiniteSets

(***************************************************************************)
(* JSON documents (the response body as serde_json sees it).               *)
(* An object is the sequence of its <<key, value>> members in text order.  *)
(***************************************************************************)
JNull == [t |-> "null"]
JBool(b) == [t |-> "bool", b |-> b]
JNum(n) == [t |-> "num", n |-> n]
JFloat(s) == [t |-> "float", f |-> s]
JStr(s) == [t |-> "str", s |-> s]
JArr(a) == [t |-> "arr", a |-> a]
JObj(o) == [t |-> "obj", o |-> o]

(***************************************************************************)
(* Rust types of the data model, as descriptors.                           *)
(***************************************************************************)
TU64 == [k |-> "u64"]
TF64 == [k |-> "f64"]
TBool == [k |-> "bool"]
TString == [k |-> "String"]
TValueMap == [k |-> "HashMap<String,Value>"]
TStringMap == [k |-> "HashMap<String,String>"]
TPoint == [k |-> "(f64,f64)"]
TOpt(ty) == [k |-> "Option", of |-> ty]
TVec(ty) == [k |-> "Vec", of |-> ty]
TStruct(name) == [k |-> "struct", name |-> name]
TEnum(name) == [k |-> "enum", name |-> name]

\* One struct field: its Rust name, its JSON key (serde rename), its type,
\* and whether it is #[serde(flatten)].
F(name, ty) == [name |-> name, key |-> name, ty |-> ty, flatten |-> FALSE]
FRenamed(name, key, ty) == [name |-> name, key |-> key, ty |-> ty, flatten |-> FALSE]
FFlatten(name, ty) == [name |-> name, key |-> "", ty |-> ty, flatten |-> TRUE]

MetaFields ==
  << F("after", TU64), F("next", TString) >>

FeedFields ==
  << F("id", TU64), F("onestop_id", TString), F("name", TOpt(TString)),
     F("spec", TEnum("Spec")), F("feed_namespace_id", TOpt(TString)),
     F("associated_feeds", TOpt(TVec(TString))),
     F("languages", TOpt(TVec(TString))),
     F("urls", TStruct("Urls")), F("license", TStruct("License")),
     F("authorization", TStruct("Authorization")),
     F("geometry", TOpt(TStruct("Geometry<Vec<Vec<(f64,f64)>>>"))),
     F("feed_state", TStruct("FeedState")),
     F("feed_versions", TVec(TStruct("partial::FeedVersion"))) >>

UrlsFields ==
  << F("static_current", TString), F("static_historic", TVec(TString)),
     F("static_planned", TString), F("realtime_vehicle_positions", TString),
     F("realtime_trip_updates", TString), F("realtime_alerts", TString) >>

LicenseFields ==
  << F("spdx_identifier", TOpt(TString)), F("url", TOpt(TString)),
     F("use_without_attribution", TOpt(TString)),
     F("create_derived_product", TOpt(TString)),
     F("redistribution_allowed", TOpt(TString)),
     F("commercial_use_allowed", TOpt(TString)),
     F("share_alike_optional", TOpt(TString)),
     F("attribution_text", TOpt(TString)),
     F("attribution_instructions", TOpt(TString)) >>

AuthorizationFields ==
  << FRenamed("auth_type", "type", TOpt(TEnum("AuthorizationType"))),
     F("param_name", TOpt(TString)), F("info_url", TString) >>

GeometryPolygonFields ==
  << FRenamed("type_", "type", TString),
     F("coordinates", TVec(TVec(TPoint))) >>

GeometryPointFields ==
  << FRenamed("type_", "type", TString), F("coordinates", TPoint) >>

FeedStateFields ==
  << F("last_fetch_error", TOpt(TString)), F("last_fetched_at", TOpt(TString)),
     F("last_successful_fetch_at", TOpt(TString)),
     F("feed_version", TStruct("partial::FeedVersion")) >>

FeedVersionFields ==
  << F("id", TOpt(TU64)), F("sha1", TOpt(TString)), F("fetched_at", TString),
     F("url", TOpt(TString)), F("earliest_calendar_date", TOpt(TString)),
     F("latest_calendar_date", TOpt(TString)),
     F("files", TOpt(TVec(TStruct("FileMetadata")))),
     F("service_levels", TVec(TStruct("Calendar"))),
     F("feed", TStruct("partial::Feed")) >>

FileMetadataFields ==
  << F("name", TString), F("sha1", TString), F("header", TString),
     F("rows", TU64), F("csv_like", TBool), F("size", TU64) >>

AgencyFields ==
  << F("id", TU64), F("onestop_id", TOpt(TString)), F("agency_id", TOpt(TString)),
     F("agency_name", TOpt(TString)), F("agency_url", TOpt(TString)),
     F("agency_timezone", TOpt(TString)), F("agency_lang", TOpt(TString)),
     F("agency_phone", TOpt(TString)), F("agency_fare_url", TOpt(TString)),
     F("agency_email", TOpt(TString)),
     F("geometry", TOpt(TStruct("Geometry<Vec<Vec<(f64,f64)>>>"))),
     F("operator", TOpt(TStruct("partial::Operator"))),
     F("places", TOpt(TVec(TStruct("Place")))),
     F("feed_version", TOpt(TStruct("partial::FeedVersion"))),
     F("routes", TOpt(TVec(TStruct("partial::Route")))) >>

PlaceFields ==
  << F("city_name", TOpt(TString)), F("adm1_name", TOpt(TString)),
     F("adm0_name", TOpt(TString)) >>

OperatorFields ==
  << F("id", TU64), F("onestop_id", TString), F("name", TOpt(TString)),
     F("short_name", TOpt(TString)), F("website", TOpt(TString)),
     F("tags", TOpt(TStringMap)),
     F("agencies", TOpt(TVec(TStruct("partial::Agency")))) >>

RouteFields ==
  << F("id", TU64), F("onestop_id", TString), F("route_id", TOpt(TString)),
     F("route_type", TOpt(TU64)), F("route_short_name", TOpt(TString)),
     F("route_long_name", TOpt(TString)), F("route_color", TString),
     F("route_text_color", TString), F("route_sort_order", TU64),
     F("agency", TStruct("partial::Agency")),
     F("feed_version", TOpt(TStruct("partial::FeedVersion"))),
     FFlatten("route_stops", TOpt(TVec(TStruct("Stop")))) >>

StopFields ==
  << F("id", TU64), F("onestop_id", TOpt(TString)), F("stop_id", TOpt(TString)),
     F("stop_name", TOpt(TString)), F("stop_desc", TOpt(TString)),
     F("stop_url", TOpt(TString)), F("stop_timezone", TOpt(TString)),
     F("stop_code", TOpt(TString)), F("zone_id", TOpt(TString)),
     F("wheelchair_boarding", TOpt(TU64)), F("location_type", TOpt(TU64)),
     F("feed_version", TValueMap), F("level", TOpt(TStruct("GTFSLevel"))),
     F("route_stops", TVec(TValueMap)),
     F("geometry", TStruct("Geometry<(f64,f64)>")) >>

GTFSLevelFields ==
  << F("level_id", TString), F("level_name", TString), F("level_index", TString) >>

TripFields ==
  << F("id", TU64), F("trip_id", TOpt(TString)), F("trip_headsign", TOpt(TString)),
     F("trip_short_name", TOpt(TString)), F("direction_id", TOpt(TU64)),
     F("block_id", TOpt(TString)), F("wheelchair_accessible", TOpt(TU64)),
     F("bikes_allowed", TOpt(TU64)), F("stop_pattern_id", TOpt(TU64)),
     F("stop_times", TOpt(TVec(TStruct("StopTime")))),
     F("shape", TStruct("Shape")), F("calendar", TStruct("Calendar")),
     F("frequencies", TVec(TStruct("Frequency"))),
     F("route", TOpt(TStruct("partial::Route"))),
     F("feed_version", TStruct("partial::FeedVersion")) >>

StopTimeFields ==
  << F("arrival_time", TU64), F("departure_time", TU64), F("stop_sequence", TU64),
     F("stop_headsign", TString), F("pickup_type", TU64), F("drop_off_type", TU64),
     F("timepoint", TU64), F("shape_dist_traveled", TF64), F("interpolated", TU64) >>

ShapeFields ==
  << F("shape_id", TString), F("generated", TBool) >>

CalendarFields ==
  << F("service_id", TOpt(TString)), F("start_date", TString), F("end_date", TString),
     F("added_dates", TOpt(TVec(TString))), F("removed_dates", TOpt(TVec(TString))),
     F("generated", TOpt(TBool)), F("monday", TU64), F("tuesday", TU64),
     F("wednesday", TU64), F("thursday", TU64), F("friday", TU64),
     F("saturday", TU64), F("sunday", TU64) >>

FrequencyFields ==
  << F("start_time", TU64), F("end_time", TU64), F("headway_secs", TU64),
     F("exact_times", TU64) >>

PartialFeedVersionFields ==
  << F("id", TOpt(TU64)), F("sha1", TString), F("fetched_at", TString),
     F("url", TOpt(TString)), F("earliest_calendar_date", TOpt(TString)),
     F("latest_calendar_date", TOpt(TString)) >>

PartialFeedFields ==
  << F("name", TOpt(TString)), F("onestop_id", TString), F("spec", TEnum("Spec")) >>

PartialOperatorFields ==
  << F("onestop_id", TString), F("name", TString), F("short_name", TOpt(TString)),
     F("website", TOpt(TString)), F("tags", TOpt(TStringMap)) >>

PartialRouteFields ==
  << F("id", TU64), F("route_id", TString), F("route_long_name", TOpt(TString)),
     F("route_short_name", TOpt(TString)) >>

PartialAgencyFields ==
  << F("id", TU64), F("agency_id", TOpt(TString)), F("agency_name", TOpt(TString)),
     F("places", TOpt(TVec(TStruct("Place")))) >>

\* The fields of a struct, in declaration order.
Fields(name) ==
  CASE name = "Meta" -> MetaFields
    [] name = "Feed" -> FeedFields
    [] name = "Urls" -> UrlsFields
    [] name = "License" -> LicenseFields
    [] name = "Authorization" -> AuthorizationFields
    [] name = "Geometry<Vec<Vec<(f64,f64)>>>" -> GeometryPolygonFields
    [] name = "Geometry<(f64,f64)>" -> GeometryPointFields
    [] name = "FeedState" -> FeedStateFields
    [] name = "FeedVersion" -> FeedVersionFields
    [] name = "FileMetadata" -> FileMetadataFields
    [] name = "Agency" -> AgencyFields
    [] name = "Place" -> PlaceFields
    [] name = "Operator" -> OperatorFields
    [] name = "Route" -> RouteFields
    [] name = "Stop" -> StopFields
    [] name = "GTFSLevel" -> GTFSLevelFields
    [] name = "Trip" -> TripFields
    [] name = "StopTime" -> StopTimeFields
    [] name = "Shape" -> ShapeFields
    [] name = "Calendar" -> CalendarFields
    [] name = "Frequency" -> FrequencyFields
    [] name = "partial::FeedVersion" -> PartialFeedVersionFields
    [] name = "partial::Feed" -> PartialFeedFields
    [] name = "partial::Operator" -> PartialOperatorFields
    [] name = "partial::Route" -> PartialRouteFields
    [] name = "partial::Agency" -> PartialAgencyFields


(***************************************************************************)
(* serde naming of enum variants.                                          *)
(***************************************************************************)
UpperChars == "ABCDEFGHIJKLMNOPQRSTUVWXYZ"
LowerChars == "abcdefghijklmnopqrstuvwxyz"

CharAt(s, i) == SubSeq(s, i, i)

IsUpper(c) == \E i \in 1..Len(UpperChars) : CharAt(UpperChars, i) = c

\* char::to_ascii_lowercase
LowerChar(c) ==
  IF IsUpper(c)
    THEN CharAt(LowerChars, CHOOSE i \in 1..Len(UpperChars) : CharAt(UpperChars, i) = c)
    ELSE c

RECURSIVE ToAsciiLowercase(_)
\* rename_all = "lowercase": the variant name, every letter lowered.
ToAsciiLowercase(s) ==
  IF s = "" THEN ""
  ELSE LowerChar(CharAt(s, 1)) \o ToAsciiLowercase(SubSeq(s, 2, Len(s)))

RECURSIVE SnakeFrom(_, _)
SnakeFrom(s, i) ==
  IF i > Len(s) THEN ""
  ELSE (IF i > 1 /\ IsUpper(CharAt(s, i)) THEN "_" ELSE "")
         \o LowerChar(CharAt(s, i)) \o SnakeFrom(s, i + 1)

\* rename_all = "snake_case": "_" before every capital but the first, lowered.
SnakeCase(s) == SnakeFrom(s, 1)

\* enum Spec, in declaration order.
SpecVariants == << "GTFS", "GTFSRealtime", "GBFS", "MDS" >>

SpecSet == { SpecVariants[i] : i \in DOMAIN SpecVariants }

\* Mutant of SpecWireName: the rename on GTFSRealtime is lost.
SpecWireNameUnrenamed(v) == ToAsciiLowercase(v)

\* #[serde(rename_all = "lowercase")] with #[serde(rename = "gtfs-rt")] on
\* GTFSRealtime.
SpecWireName(v) ==
  IF v = "GTFSRealtime" THEN "gtfs-rt" ELSE ToAsciiLowercase(v)

\* enum AuthorizationType, in declaration order.
AuthorizationTypeVariants ==
  << "None", "Header", "BasicAuth", "QueryParam", "PathSegment" >>

AuthorizationTypeWireName(v) ==
  IF v = "None" THEN "" ELSE SnakeCase(v)

EnumVariants(name) ==
  CASE name = "Spec" -> SpecVariants
    [] name = "AuthorizationType" -> AuthorizationTypeVariants

EnumWireName(name, v) ==
  CASE name = "Spec" -> SpecWireName(v)
    [] name = "AuthorizationType" -> AuthorizationTypeWireName(v)

(***************************************************************************)
(* Deserialization (serde derive + serde_json).  A result is               *)
(* [ok |-> TRUE, val |-> typed value] or [ok |-> FALSE].                   *)
(***************************************************************************)
DeOk(v) == [ok |-> TRUE, val |-> v]
DeErr == [ok |-> FALSE]

None == [some |-> FALSE]
Some(v) == [some |-> TRUE, val |-> v]

\* A unit variant is written as its wire name; it is read back by matching the
\* string against the variants' wire names, in declaration order.
DeEnum(name, j) ==
  LET vs == EnumVariants(name)
      hits == IF j.t = "str"
                THEN { i \in DOMAIN vs : EnumWireName(name, vs[i]) = j.s }
                ELSE {}
  IN IF hits = {} THEN DeErr
     ELSE DeOk(vs[CHOOSE i \in hits : \A h \in hits : i <= h])

\* Serialize for a unit variant: the JSON string of its wire name.
SerEnum(name, v) == JStr(EnumWireName(name, v))

IsNumber(j) == j.t = "num" \/ j.t = "float"

\* Mutant of MissingField: every field is #[serde(default)].
MissingFieldDefaulted(f) ==
  IF f.ty.k = "Option" THEN DeOk(None) ELSE DeOk("default")

\* A field with no member in the object: no field of the data model carries
\* #[serde(default)], so only an Option has a value (None) for it.
MissingField(f) ==
  IF f.ty.k = "Option" THEN DeOk(None) ELSE DeErr

\* The sequence seq with every element evaluated, once.
Each(seq) == << >> \o seq

RECURSIVE De(_, _)
\* T::deserialize for the type `ty` on the JSON value j.
De(ty, j) ==
  CASE ty.k = "u64" ->
         IF j.t = "num" /\ j.n >= 0 THEN DeOk(j.n) ELSE DeErr
    [] ty.k = "f64" ->
         IF j.t = "num" THEN DeOk(j.n)
         ELSE IF j.t = "float" THEN DeOk(j.f) ELSE DeErr
    [] ty.k = "bool" ->
         IF j.t = "bool" THEN DeOk(j.b) ELSE DeErr
    [] ty.k = "String" ->
         IF j.t = "str" THEN DeOk(j.s) ELSE DeErr
    [] ty.k = "HashMap<String,Value>" ->
         IF j.t = "obj" THEN DeOk(j.o) ELSE DeErr
    [] ty.k = "HashMap<String,String>" ->
         IF j.t = "obj" /\ \A i \in DOMAIN j.o : j.o[i][2].t = "str"
           THEN DeOk(j.o) ELSE DeErr
    [] ty.k = "(f64,f64)" ->
         IF j.t = "arr" /\ Len(j.a) = 2 /\ IsNumber(j.a[1]) /\ IsNumber(j.a[2])
           THEN DeOk(j.a) ELSE DeErr
    [] ty.k = "Option" ->
         IF j.t = "null" THEN DeOk(None)
         ELSE LET r == De(ty.of, j)
              IN IF r.ok THEN DeOk(Some(r.val)) ELSE DeErr
    [] ty.k = "Vec" ->
         IF j.t # "arr" THEN DeErr
         ELSE LET rs == Each([i \in DOMAIN j.a |-> De(ty.of, j.a[i])])
              IN IF \E i \in DOMAIN rs : ~rs[i].ok THEN DeErr
                 ELSE DeOk([i \in DOMAIN rs |-> rs[i].val])
    [] ty.k = "enum" -> DeEnum(ty.name, j)
    [] ty.k = "struct" ->
         LET fs == Fields(ty.name)
             hasFlatten == \E n \in DOMAIN fs : fs[n].flatten
             names == { fs[n].name : n \in DOMAIN fs }
             indexOf(nm) == CHOOSE n \in DOMAIN fs : fs[n].name = nm
         IN CASE j.t = "obj" ->
                  \* visit_map: known keys are read into their field, unknown
                  \* keys are skipped, a repeated key is an error, an absent
                  \* field is an error unless it is an Option; a flattened
                  \* Option<Vec<_>> finds no sequence in the left-over keys
                  \* and is None.
                  LET at(f) == { i \in DOMAIN j.o : ~f.flatten /\ j.o[i][1] = f.key }
                      the(f) == j.o[CHOOSE i \in at(f) : TRUE][2]
                      rs == Each([n \in DOMAIN fs |->
                                      IF at(fs[n]) # {} THEN De(fs[n].ty, the(fs[n]))
                                      ELSE MissingField(fs[n])])
                  IN IF \E n \in DOMAIN fs : Cardinality(at(fs[n])) > 1 THEN DeErr
                     ELSE IF \E n \in DOMAIN fs : ~rs[n].ok THEN DeErr
                     ELSE DeOk([nm \in names |-> rs[indexOf(nm)].val])
              [] j.t = "arr" /\ ~hasFlatten ->
                  \* visit_seq: the fields by position, all of them.
                  IF Len(j.a) # Len(fs) THEN DeErr
                  ELSE LET rs == Each([n \in DOMAIN fs |-> De(fs[n].ty, j.a[n])])
                       IN IF \E n \in DOMAIN fs : ~rs[n].ok THEN DeErr
                          ELSE DeOk([nm \in names |-> rs[indexOf(nm)].val])
              [] OTHER -> DeErr

(***************************************************************************)
(* The response envelope.                                                  *)
(***************************************************************************)
\* Mutant of DeSearchResponse: `meta` is read and also left among the members
\* handed to the flattened map.
DeSearchResponseKeepsMeta(T, j) ==
  IF j.t # "obj" THEN DeErr
  ELSE LET metaAt == { i \in DOMAIN j.o : j.o[i][1] = "meta" }
           meta == IF metaAt = {} THEN DeOk(None)
                   ELSE De(TOpt(TStruct("Meta")), j.o[CHOOSE i \in metaAt : TRUE][2])
           lists == Each([i \in DOMAIN j.o |-> De(TVec(TStruct(T)), j.o[i][2])])
           keys == { j.o[i][1] : i \in DOMAIN j.o }
           lastAt(key) == CHOOSE i \in DOMAIN j.o :
                            /\ j.o[i][1] = key
                            /\ \A h \in DOMAIN j.o : j.o[h][1] = key => h <= i
       IN IF Cardinality(metaAt) > 1 THEN DeErr
          ELSE IF ~meta.ok THEN DeErr
          ELSE IF \E i \in DOMAIN j.o : ~lists[i].ok THEN DeErr
          ELSE DeOk([meta |-> meta.val,
                     rest |-> [key \in keys |-> lists[lastAt(key)].val]])

\* Mutant of DeSearchResponse: a member that is not a list of T is left out of
\* the map instead of failing the envelope.
DeSearchResponseLenient(T, j) ==
  IF j.t # "obj" THEN DeErr
  ELSE LET metaAt == { i \in DOMAIN j.o : j.o[i][1] = "meta" }
           restAt == DOMAIN j.o \ metaAt
           meta == IF metaAt = {} THEN DeOk(None)
                   ELSE De(TOpt(TStruct("Meta")), j.o[CHOOSE i \in metaAt : TRUE][2])
           lists == Each([i \in DOMAIN j.o |->
                            IF i \in restAt THEN De(TVec(TStruct(T)), j.o[i][2])
                            ELSE DeOk(<< >>)])
           goodAt == { i \in restAt : lists[i].ok }
           keys == { j.o[i][1] : i \in goodAt }
           lastAt(key) == CHOOSE i \in goodAt :
                            /\ j.o[i][1] = key
                            /\ \A h \in goodAt : j.o[h][1] = key => h <= i
       IN IF Cardinality(metaAt) > 1 THEN DeErr
          ELSE IF ~meta.ok THEN DeErr
          ELSE DeOk([meta |-> meta.val,
                     rest |-> [key \in keys |-> lists[lastAt(key)].val]])

\* Mutant of DeSearchResponse: `meta` is a required member.
DeSearchResponseNeedsMeta(T, j) ==
  IF j.t # "obj" THEN DeErr
  ELSE LET metaAt == { i \in DOMAIN j.o : j.o[i][1] = "meta" }
           restAt == DOMAIN j.o \ metaAt
           meta == IF metaAt = {} THEN DeErr
                   ELSE De(TOpt(TStruct("Meta")), j.o[CHOOSE i \in metaAt : TRUE][2])
           lists == Each([i \in DOMAIN j.o |->
                            IF i \in restAt THEN De(TVec(TStruct(T)), j.o[i][2])
                            ELSE DeOk(<< >>)])
           keys == { j.o[i][1] : i \in restAt }
           lastAt(key) == CHOOSE i \in restAt :
                            /\ j.o[i][1] = key
                            /\ \A h \in restAt : j.o[h][1] = key => h <= i
       IN IF Cardinality(metaAt) > 1 THEN DeErr
          ELSE IF ~meta.ok THEN DeErr
          ELSE IF \E i \in restAt : ~lists[i].ok THEN DeErr
          ELSE DeOk([meta |-> meta.val,
                     rest |-> [key \in keys |-> lists[lastAt(key)].val]])

\* #[derive(Deserialize)] for SearchResponse<T>: `meta` is read from its own
\* key, every other member of the object goes to the flattened
\* HashMap<String, Vec<T>> (a repeated key keeps its last value).
DeSearchResponse(T, j) ==
  IF j.t # "obj" THEN DeErr
  ELSE LET metaAt == { i \in DOMAIN j.o : j.o[i][1] = "meta" }
           restAt == DOMAIN j.o \ metaAt
           meta == IF metaAt = {} THEN DeOk(None)
                   ELSE De(TOpt(TStruct("Meta")), j.o[CHOOSE i \in metaAt : TRUE][2])
           lists == Each([i \in DOMAIN j.o |->
                            IF i \in restAt THEN De(TVec(TStruct(T)), j.o[i][2])
                            ELSE DeOk(<< >>)])
           keys == { j.o[i][1] : i \in restAt }
           lastAt(key) == CHOOSE i \in restAt :
                            /\ j.o[i][1] = key
                            /\ \A h \in restAt : j.o[h][1] = key => h <= i
       IN IF Cardinality(metaAt) > 1 THEN DeErr
          ELSE IF ~meta.ok THEN DeErr
          ELSE IF \E i \in restAt : ~lists[i].ok THEN DeErr
          ELSE DeOk([meta |-> meta.val,
                     rest |-> [key \in keys |-> lists[lastAt(key)].val]])

\* SearchResponse::values: self.rest.values().last().  The iteration order of
\* a HashMap is unspecified, so with several entries any of them may be last.
ValuesOutcomes(env) ==
  IF DOMAIN env.rest = {} THEN { None }
  ELSE { Some(env.rest[key]) : key \in DOMAIN env.rest }

(***************************************************************************)
(* Resource paths.                                                         *)
(***************************************************************************)
UnitParent == [kind |-> "()"]
U64Parent(n) == [kind |-> "u64", n |-> n]

\* The types with impl_object!(T, noun), i.e. TransitlandObject<()>.
UnitTypes == { "Feed", "FeedVersion", "Agency", "Operator", "Route", "Stop" }

\* Mutant of Noun: the invocation for Stop copied from Route with its noun.
NounStopCopiedFromRoute(T) ==
  CASE T = "Feed" -> "feeds"
    [] T = "FeedVersion" -> "feed_versions"
    [] T = "Agency" -> "agencies"
    [] T = "Operator" -> "operators"
    [] T = "Route" -> "routes"
    [] T = "Stop" -> "routes"

\* The second argument of each impl_object! invocation.
Noun(T) ==
  CASE T = "Feed" -> "feeds"
    [] T = "FeedVersion" -> "feed_versions"
    [] T = "Agency" -> "agencies"
    [] T = "Operator" -> "operators"
    [] T = "Route" -> "routes"
    [] T = "Stop" -> "stops"

Digits == "0123456789"

\* A u64 is held as four 16-bit limbs, most significant first, so that all
\* 64 bits fit the model checker's integers.  U64(n) is the u64 of a small n.
U64(n) == << 0, 0, n \div 65536, n % 65536 >>

\* u64::MAX, all bits set.
U64_MAX == << 65535, 65535, 65535, 65535 >>

\* v divided by ten: quotient and remainder, by long division over the limbs.
DivTen(v) ==
  LET c1 == v[1]
      c2 == (c1 % 10) * 65536 + v[2]
      c3 == (c2 % 10) * 65536 + v[3]
      c4 == (c3 % 10) * 65536 + v[4]
  IN [q |-> << c1 \div 10, c2 \div 10, c3 \div 10, c4 \div 10 >>, r |-> c4 % 10]

RECURSIVE ToString(_)
\* u64::to_string: the decimal digits, most significant first.
ToString(v) ==
  LET d == DivTen(v)
  IN IF d.q = U64(0) THEN CharAt(Digits, d.r + 1)
     ELSE ToString(d.q) \o CharAt(Digits, d.r + 1)

query_path(T, parent) ==
  IF T = "Trip" THEN "routes/" \o ToString(U64(parent.n)) \o "/trips"
  ELSE Noun(T)

\* Mutant of by_id_path: Trip looked up at the top level, not under its route.
by_id_path_unnested(T, parent) ==
  IF T = "Trip" THEN "trips"
  ELSE Noun(T)

by_id_path(T, parent) ==
  IF T = "Trip" THEN "routes/" \o ToString(U64(parent.n)) \o "/trips"
  ELSE Noun(T)

(***************************************************************************)
(* The Request builder and the HTTP request of each call.                  *)
(***************************************************************************)
TRANSITLAND_BASE_URL == "https://transit.land/api/v2/rest"

DefaultLimit == 20

\* Mutant of RequestNew: the cursor starts at the first page, not absent.
RequestNewAtFirstPage ==
  [spec |-> "GTFS", after |-> Some(0), limit |-> U64(DefaultLimit),
   base_url |-> TRANSITLAND_BASE_URL]

\* Request::new
RequestNew ==
  [spec |-> "GTFS", after |-> None, limit |-> U64(DefaultLimit),
   base_url |-> TRANSITLAND_BASE_URL]

with_spec(self, spec) == [self EXCEPT !.spec = spec]

\* Mutant of with_limit: a page size of zero is raised to one.
with_limit_at_least_one(self, limit) ==
  [self EXCEPT !.limit = IF limit = U64(0) THEN U64(1) ELSE limit]

\* Mutant of with_limit: the limit set on a fresh Request, not on self.
with_limit_rebuilding(self, limit) == [RequestNew EXCEPT !.limit = limit]

with_limit(self, limit) == [self EXCEPT !.limit = limit]

with_base_url(self, base_url) == [self EXCEPT !.base_url = base_url]

\* Mutant of search_with_parent: the spec filter and the cursor are sent too.
search_with_parent_filtering(self, T, parent, query, api_key) ==
  [url |-> TRANSITLAND_BASE_URL \o "/" \o query_path(T, parent),
   query |-> << <<"apikey", api_key>>, <<"search", query>>,
                <<"limit", ToString(self.limit)>>,
                <<"spec", SpecWireName(self.spec)>> >>
              \o (IF self.after = None THEN << >>
                  ELSE << <<"after", ToString(self.after.val)>> >>)]

\* Mutant of search_with_parent: the page size of Request::new, not self.limit.
search_with_parent_default_limit(self, T, parent, query, api_key) ==
  [url |-> TRANSITLAND_BASE_URL \o "/" \o query_path(T, parent),
   query |-> << <<"apikey", api_key>>, <<"search", query>>,
                <<"limit", ToString(U64(DefaultLimit))>> >>]

\* Request::search_with_parent, up to send(): the URL and the query pairs of
\* the GET it builds.
search_with_parent(self, T, parent, query, api_key) ==
  [url |-> TRANSITLAND_BASE_URL \o "/" \o query_path(T, parent),
   query |-> << <<"apikey", api_key>>, <<"search", query>>,
                <<"limit", ToString(self.limit)>> >>]

\* Mutant of get_with_parent: the query pairs of a search, the key as its text.
get_with_parent_searching(self, T, parent, key, api_key) ==
  [url |-> TRANSITLAND_BASE_URL \o "/" \o by_id_path(T, parent) \o "/" \o key,
   query |-> << <<"apikey", api_key>>, <<"search", key>>,
                <<"limit", ToString(self.limit)>> >>]

\* Request::get_with_parent, up to send().
get_with_parent(self, T, parent, key, api_key) ==
  [url |-> TRANSITLAND_BASE_URL \o "/" \o by_id_path(T, parent) \o "/" \o key,
   query |-> << <<"apikey", api_key>>, <<"limit", ToString(self.limit)>> >>]

\* Request::search and Request::get: the unit parent.
Request_search(self, T, query, api_key) ==
  search_with_parent(self, T, UnitParent, query, api_key)

Request_get(self, T, key, api_key) ==
  get_with_parent(self, T, UnitParent, key, api_key)

\* The top-level search and get: a fresh Request, the two arguments handed
\* on in the order received.
search(T, api_key, query) == Request_search(RequestNew, T, api_key, query)

get(T, api_key, key) == Request_get(RequestNew, T, api_key, key)

Ok(v) == [tag |-> "Ok", val |-> v]
Err(kind) == [tag |-> "Err", kind |-> kind]
Panic == [tag |-> "Panic"]
Pending == [tag |-> "Pending"]

\* `.send().await?.json().await` on what the server did: a failed send or a
\* failed body read is the client's error; otherwise the body is parsed
\* whatever the status line said (there is no error_for_status).
SearchResult(T, r) ==
  IF r.kind # "response" THEN Err("Transport")
  ELSE IF r.body.t = "invalid" THEN Err("Deserialization")
  ELSE LET d == DeSearchResponse(T, r.body)
       IN IF d.ok THEN Ok(d.val) ELSE Err("Deserialization")

GetResult(T, r) ==
  IF r.kind # "response" THEN Err("Transport")
  ELSE IF r.body.t = "invalid" THEN Err("Deserialization")
  ELSE LET d == De(TOpt(TStruct(T)), r.body)
       IN IF d.ok THEN Ok(d.val) ELSE Err("Deserialization")


(***************************************************************************)
(* Inputs: arguments of the calls and what the server may answer.          *)
(***************************************************************************)
MaxElems == 2
MaxRouteKey == 10
MaxSites == 2

\* The call sites sharing one Request.
Sites == 1..MaxSites

AllTypes == UnitTypes \cup { "Trip" }

Parents(T) ==
  IF T = "Trip" THEN { U64Parent(0), U64Parent(MaxRouteKey) } ELSE { UnitParent }

ApiKeys == { "KEY" }
Texts == { "bus", "KEY" }
Limits == { U64(0), U64(DefaultLimit), U64_MAX }
BaseUrls == { TRANSITLAND_BASE_URL, "http://localhost:8080" }
Statuses == { 200, 404 }

IsRequired(f) == ~f.flatten /\ f.ty.k # "Option"

RequiredKeys(T) ==
  { Fields(T)[n].key : n \in { m \in DOMAIN Fields(T) : IsRequired(Fields(T)[m]) } }

RECURSIVE MinJson(_)
\* The smallest JSON value that is a well-formed `ty`: a struct is the object
\* of its required fields.
MinJson(ty) ==
  CASE ty.k = "u64" -> JNum(1)
    [] ty.k = "f64" -> JFloat("1.5")
    [] ty.k = "bool" -> JBool(TRUE)
    [] ty.k = "String" -> JStr("s")
    [] ty.k = "HashMap<String,Value>" -> JObj(<< >>)
    [] ty.k = "HashMap<String,String>" -> JObj(<< >>)
    [] ty.k = "(f64,f64)" -> JArr(<< JFloat("1.5"), JNum(2) >>)
    [] ty.k = "Option" -> JNull
    [] ty.k = "Vec" -> JArr(<< >>)
    [] ty.k = "enum" -> SerEnum(ty.name, EnumVariants(ty.name)[1])
    [] ty.k = "struct" ->
         LET fs == SelectSeq(Fields(ty.name), IsRequired)
         IN JObj([n \in DOMAIN fs |-> << fs[n].key, MinJson(fs[n].ty) >>])

Drop(obj, key) == JObj(SelectSeq(obj.o, LAMBDA e : e[1] # key))

\* A well-formed resource object of type T with the given id; the second one
\* also carries a member the type does not declare.
Resource(T, id) ==
  JObj(<< <<"id", JNum(id)>> >> \o Drop(MinJson(TStruct(T)), "id").o
       \o (IF id = 1 THEN << >> ELSE << <<"x_undeclared", JStr("?")>> >>))

GoodElems(T) == { Resource(T, 1), Resource(T, 2) }

BadElems(T) == { Drop(Resource(T, 1), key) : key \in RequiredKeys(T) }

SeqsUpTo(S, n) == UNION { [1..m -> S] : m \in 0..n }

GoodArrays(T) == SeqsUpTo(GoodElems(T), MaxElems)

BadArrays(T) ==
  { << b >> : b \in BadElems(T) } \cup { << Resource(T, 1), b >> : b \in BadElems(T) }

JInvalid == [t |-> "invalid"]

MetaFull ==
  JObj(<< <<"after", JNum(5)>>,
          <<"next", JStr("https://transit.land/api/v2/rest/routes?after=5")>> >>)

\* The key the service names the result list by.
ResourceKey(T) == IF T = "Trip" THEN "trips" ELSE Noun(T)

Envelope(metas, key, arr) ==
  JObj([n \in DOMAIN metas |-> << "meta", metas[n] >>] \o << << key, JArr(arr) >> >>)

\* Well-shaped bodies: the envelope with or without `meta` around an array.
EnvelopeBodies(T) ==
  { Envelope(m, ResourceKey(T), a) :
      m \in { << >>, << MetaFull >> }, a \in GoodArrays(T) \cup BadArrays(T) }

\* Other bodies a server can send.
OddBodies(T) ==
  { JNull, JInvalid, JObj(<< >>), Resource(T, 1), JArr(<< Resource(T, 1) >>),
    Envelope(<< Drop(MetaFull, "next") >>, ResourceKey(T), << Resource(T, 1) >>),
    Envelope(<< Drop(MetaFull, "after") >>, ResourceKey(T), << Resource(T, 1) >>),
    Envelope(<< JNull >>, ResourceKey(T), << Resource(T, 1) >>),
    Envelope(<< MetaFull, MetaFull >>, ResourceKey(T), << Resource(T, 1) >>),
    JObj(<< << ResourceKey(T), Resource(T, 1) >> >>),
    JObj(<< << ResourceKey(T), JArr(<< Resource(T, 1) >>) >>,
            << "other", JArr(<< Resource(T, 2) >>) >> >>),
    JObj(<< << "other", JArr(<< Resource(T, 2) >>) >>,
            << ResourceKey(T), JArr(<< Resource(T, 1) >>) >> >>),
    JObj(<< << "meta", MetaFull >> >>) }
  \cup BadElems(T)

Bodies(T) == EnvelopeBodies(T) \cup OddBodies(T)

\* What the server does with a request.
Responses(T) ==
  { [kind |-> "send failed"], [kind |-> "body failed"] }
  \cup { [kind |-> "response", status |-> st, body |-> b] :
           st \in Statuses, b \in Bodies(T) }

(***************************************************************************)
(* The state machine.                                                      *)
(***************************************************************************)
VARIABLES
  req,     \* the caller's Request value
  pc,      \* "idle", "sent" (the GET is built and handed to send()),
           \* "awaiting" (the answer), "done", "panicked"
  call,    \* the call: function, type, arguments and receiver until the GET
           \* has gone out; kind and type after that
  http,    \* the GET handed to send()
  resp,    \* what the server did
  result,  \* what the call returned
  vals,    \* what values() returned on the returned envelope
  next,    \* what search_next() on the returned envelope did
  serde,   \* a Spec value on its way through serde_json and back
  sites    \* the calls in flight on the Request when it is shared by several
           \* call sites: for each site, how far its call has come

vars == << req, pc, call, http, resp, result, vals, next, serde, sites >>

NoCall == [fn |-> "none"]
NoHttp == [url |-> "", query |-> << >>]
NoResp == [kind |-> "none"]
NotCalled == [called |-> FALSE]
IdleSite == [pc |-> "idle"]
NoSites == [s \in Sites |-> IdleSite]

Init ==
  /\ req = RequestNew
  /\ pc = "idle"
  /\ call = NoCall
  /\ http = NoHttp
  /\ resp = NoResp
  /\ result = Pending
  /\ vals = NotCalled
  /\ next = Pending
  /\ serde = [value |-> "GTFS", input |-> JNull, wire |-> Pending,
              back |-> Pending, parsed |-> Pending]
  /\ sites = NoSites

Configure(r) ==
  /\ pc = "idle"
  /\ req' = r
  /\ UNCHANGED << pc, call, http, resp, result, vals, next, serde, sites >>

\* The caller builds a fresh Request in place of the one it held.
New == Configure(RequestNew)

WithSpec == \E spec \in SpecSet : Configure(with_spec(req, spec))

WithLimit == \E limit \in Limits : Configure(with_limit(req, limit))

WithBaseUrl == \E base_url \in BaseUrls : Configure(with_base_url(req, base_url))

\* A call starts: the arguments are recorded as the caller named them, with
\* the path the type's TransitlandObject impl returned, and the GET is built.
\* `gets` counts the GETs the call has handed to send().
Start(c, h) ==
  /\ pc = "idle"
  /\ call' = c
  /\ http' = h
  /\ pc' = "sent"
  /\ UNCHANGED << req, resp, result, vals, next, serde, sites >>

CallSearchWithParent ==
  \E T \in AllTypes, query \in Texts, api_key \in ApiKeys : \E parent \in Parents(T) :
    Start([fn |-> "Request::search_with_parent", kind |-> "search", T |-> T,
           parent |-> parent, self |-> req, text |-> query, api_key |-> api_key,
           path |-> query_path(T, parent), gets |-> 0],
          search_with_parent(req, T, parent, query, api_key))

CallGetWithParent ==
  \E T \in AllTypes, key \in Texts, api_key \in ApiKeys : \E parent \in Parents(T) :
    Start([fn |-> "Request::get_with_parent", kind |-> "get", T |-> T,
           parent |-> parent, self |-> req, text |-> key, api_key |-> api_key,
           path |-> by_id_path(T, parent), gets |-> 0],
          get_with_parent(req, T, parent, key, api_key))

CallRequestSearch ==
  \E T \in UnitTypes, query \in Texts, api_key \in ApiKeys :
    Start([fn |-> "Request::search", kind |-> "search", T |-> T,
           parent |-> UnitParent, self |-> req, text |-> query, api_key |-> api_key,
           path |-> query_path(T, UnitParent), gets |-> 0],
          Request_search(req, T, query, api_key))

CallRequestGet ==
  \E T \in UnitTypes, key \in Texts, api_key \in ApiKeys :
    Start([fn |-> "Request::get", kind |-> "get", T |-> T,
           parent |-> UnitParent, self |-> req, text |-> key, api_key |-> api_key,
           path |-> by_id_path(T, UnitParent), gets |-> 0],
          Request_get(req, T, key, api_key))

\* The top-level wrappers build their own Request: nothing of the call depends
\* on the caller's, so the call is written out here step by step.
CallSearch ==
  /\ pc = "idle"
  /\ \E T \in UnitTypes, query \in Texts, api_key \in ApiKeys :
       /\ call' = [fn |-> "search", kind |-> "search", T |-> T,
                   parent |-> UnitParent, self |-> RequestNew, text |-> query,
                   api_key |-> api_key, path |-> query_path(T, UnitParent),
                   gets |-> 0]
       /\ http' = search(T, api_key, query)
  /\ pc' = "sent"
  /\ UNCHANGED << req, resp, result, vals, next, serde, sites >>

CallGet ==
  /\ pc = "idle"
  /\ \E T \in UnitTypes, key \in Texts, api_key \in ApiKeys :
       /\ call' = [fn |-> "get", kind |-> "get", T |-> T,
                   parent |-> UnitParent, self |-> RequestNew, text |-> key,
                   api_key |-> api_key, path |-> by_id_path(T, UnitParent),
                   gets |-> 0]
       /\ http' = get(T, api_key, key)
  /\ pc' = "sent"
  /\ UNCHANGED << req, resp, result, vals, next, serde, sites >>

\* send() hands the GET to the HTTP client: the request and the borrowed
\* arguments are consumed, the call waits for the answer.
Deliver ==
  /\ pc = "sent"
  /\ call' = [fn |-> "awaited", kind |-> call.kind, T |-> call.T,
              gets |-> call.gets + 1]
  /\ http' = NoHttp
  /\ pc' = "awaiting"
  /\ UNCHANGED << req, resp, result, vals, next, serde, sites >>

\* Mutant of Respond: a failed call is sent again.
RespondRetrying ==
  /\ pc = "awaiting"
  /\ \E r \in Responses(call.T) :
       /\ resp' = r
       /\ result' = IF call.kind = "search" THEN SearchResult(call.T, r)
                    ELSE GetResult(call.T, r)
       /\ pc' = IF result'.tag = "Err" THEN "sent" ELSE "done"
  /\ UNCHANGED << req, call, http, vals, next, serde, sites >>

\* The server answers (or the connection fails) and the call returns.
Respond ==
  /\ pc = "awaiting"
  /\ \E r \in Responses(call.T) :
       /\ resp' = r
       /\ result' = IF call.kind = "search" THEN SearchResult(call.T, r)
                    ELSE GetResult(call.T, r)
  /\ pc' = "done"
  /\ UNCHANGED << req, call, http, vals, next, serde, sites >>

HasEnvelope == pc = "done" /\ call.kind = "search" /\ result.tag = "Ok"

\* SearchResponse::values on the returned envelope.
Values ==
  /\ HasEnvelope
  /\ \E out \in ValuesOutcomes(result.val) : vals' = [called |-> TRUE, out |-> out]
  /\ UNCHANGED << req, pc, call, http, resp, result, next, serde, sites >>

\* SearchResponse::search_next on the returned envelope: unimplemented!().
search_next(env) == Panic

SearchNext ==
  /\ HasEnvelope
  /\ next' = search_next(result.val)
  /\ pc' = IF next'.tag = "Panic" THEN "panicked" ELSE pc
  /\ UNCHANGED << req, call, http, resp, result, vals, serde, sites >>

\* The caller is finished with the result.
Return ==
  /\ pc = "done"
  /\ pc' = "idle"
  /\ call' = NoCall
  /\ http' = NoHttp
  /\ resp' = NoResp
  /\ result' = Pending
  /\ vals' = NotCalled
  /\ next' = Pending
  /\ UNCHANGED << req, serde, sites >>

Next ==
  \/ New
  \/ WithSpec
  \/ WithLimit
  \/ WithBaseUrl
  \/ CallSearchWithParent
  \/ CallGetWithParent
  \/ CallRequestSearch
  \/ CallRequestGet
  \/ CallSearch
  \/ CallGet
  \/ Deliver
  \/ Respond
  \/ Values
  \/ SearchNext
  \/ Return

Spec == Init /\ [][Next]_vars

(***************************************************************************)
(* Spec through serde_json: a value is written and read back, and a JSON   *)
(* value from outside is read.                                             *)
(***************************************************************************)
SpecInputs ==
  { JStr(w) : w \in { "gtfs", "gtfs-rt", "gbfs", "mds", "GTFS", "GTFSRealtime",
                      "gtfsrealtime", "gtfs_rt", "GBFS", "MDS", "" } }
  \cup { JNull, JNum(0) }

SerdeInit ==
  /\ req = RequestNew
  /\ pc = "idle"
  /\ call = NoCall
  /\ http = NoHttp
  /\ resp = NoResp
  /\ result = Pending
  /\ vals = NotCalled
  /\ next = Pending
  /\ sites = NoSites
  /\ \E v \in SpecSet, j \in SpecInputs :
       serde = [value |-> v, input |-> j, wire |-> Pending,
                back |-> Pending, parsed |-> Pending]

clientVars == << req, pc, call, http, resp, result, vals, next, sites >>

\* serde_json::to_value(&spec)
SerializeSpec ==
  /\ serde.wire = Pending
  /\ serde' = [serde EXCEPT !.wire = SerEnum("Spec", serde.value)]
  /\ UNCHANGED clientVars

\* serde_json::from_value::<Spec>(wire)
DeserializeSpec ==
  /\ serde.wire # Pending
  /\ serde.back = Pending
  /\ serde' = [serde EXCEPT !.back = DeEnum("Spec", serde.wire)]
  /\ UNCHANGED clientVars

\* serde_json::from_value::<Spec>(input)
ParseSpec ==
  /\ serde.parsed = Pending
  /\ serde' = [serde EXCEPT !.parsed = DeEnum("Spec", serde.input)]
  /\ UNCHANGED clientVars

SerdeNext ==
  \/ SerializeSpec
  \/ DeserializeSpec
  \/ ParseSpec

SerdeSpec == SerdeInit /\ [][SerdeNext]_vars

(***************************************************************************)
(* One Request shared by several call sites: each site calls               *)
(* search_with_parent or get_with_parent on &self while the calls of the   *)
(* other sites are in flight.                                              *)
(***************************************************************************)
SiteTypes == { "Route", "Trip" }

\* What the server may answer a site: nothing, or a page of one resource.
SiteResponses(T) ==
  { [kind |-> "send failed"],
    [kind |-> "response", status |-> 200,
     body |-> Envelope(<< MetaFull >>, ResourceKey(T), << Resource(T, 1) >>)] }

AllIdle == \A s \in Sites : sites[s].pc = "idle"

singleVars == << pc, call, http, resp, result, vals, next, serde >>

\* A site's call starts on the shared Request: &self is read, the GET is built.
SiteStart(s, c, h) ==
  /\ sites[s].pc = "idle"
  /\ sites' = [sites EXCEPT ![s] = [pc |-> "sent", call |-> c, http |-> h]]
  /\ UNCHANGED req
  /\ UNCHANGED singleVars

\* Mutant of SiteSearch: the call notes in the shared Request the page it is at.
SiteSearchAdvancingCursor(s) ==
  \E T \in SiteTypes, query \in Texts, api_key \in ApiKeys : \E parent \in Parents(T) :
    /\ sites[s].pc = "idle"
    /\ sites' = [sites EXCEPT ![s] =
                   [pc |-> "sent",
                    call |-> [kind |-> "search", T |-> T, parent |-> parent,
                              self |-> req, text |-> query, api_key |-> api_key,
                              path |-> query_path(T, parent)],
                    http |-> search_with_parent(req, T, parent, query, api_key)]]
    /\ req' = [req EXCEPT !.after = Some(0)]
    /\ UNCHANGED singleVars

SiteSearch(s) ==
  \E T \in SiteTypes, query \in Texts, api_key \in ApiKeys : \E parent \in Parents(T) :
    SiteStart(s, [kind |-> "search", T |-> T, parent |-> parent, self |-> req,
                  text |-> query, api_key |-> api_key,
                  path |-> query_path(T, parent)],
              search_with_parent(req, T, parent, query, api_key))

SiteGet(s) ==
  \E T \in SiteTypes, key \in Texts, api_key \in ApiKeys : \E parent \in Parents(T) :
    SiteStart(s, [kind |-> "get", T |-> T, parent |-> parent, self |-> req,
                  text |-> key, api_key |-> api_key,
                  path |-> by_id_path(T, parent)],
              get_with_parent(req, T, parent, key, api_key))

\* send(): the site's GET goes out; the site keeps its borrow of the Request.
SiteDeliver(s) ==
  /\ sites[s].pc = "sent"
  /\ sites' = [sites EXCEPT ![s] =
                 [pc |-> "awaiting", kind |-> sites[s].call.kind,
                  T |-> sites[s].call.T, self |-> sites[s].call.self]]
  /\ UNCHANGED req
  /\ UNCHANGED singleVars

\* The site's answer arrives and its call returns.
SiteRespond(s) ==
  /\ sites[s].pc = "awaiting"
  /\ \E r \in SiteResponses(sites[s].T) :
       sites' = [sites EXCEPT ![s] =
                   [pc |-> "done", kind |-> sites[s].kind, T |-> sites[s].T,
                    self |-> sites[s].self,
                    result |-> IF sites[s].kind = "search"
                               THEN SearchResult(sites[s].T, r)
                               ELSE GetResult(sites[s].T, r)]]
  /\ UNCHANGED req
  /\ UNCHANGED singleVars

\* The site drops the result and, with it, its borrow of the Request.
SiteReturn(s) ==
  /\ sites[s].pc = "done"
  /\ sites' = [sites EXCEPT ![s] = IdleSite]
  /\ UNCHANGED req
  /\ UNCHANGED singleVars

\* The builder methods take the Request by value: the owner can call them only
\* while no site borrows it.  The owner here sets the page size and the base
\* URL between calls.
Rebuild ==
  /\ AllIdle
  /\ \/ New
     \/ WithLimit
     \/ WithBaseUrl

SharedNext ==
  \/ Rebuild
  \/ \E s \in Sites : SiteSearch(s)
  \/ \E s \in Sites : SiteGet(s)
  \/ \E s \in Sites : SiteDeliver(s)
  \/ \E s \in Sites : SiteRespond(s)
  \/ \E s \in Sites : SiteReturn(s)

SharedSpec == Init /\ [][SharedNext]_vars

(***************************************************************************)
(* Properties.                                                             *)
(***************************************************************************)
Returned == pc \in { "done", "panicked" }

Answered == Returned /\ resp.kind = "response"

StartsWith(s, prefix) ==
  Len(prefix) <= Len(s) /\ SubSeq(s, 1, Len(prefix)) = prefix

\* The values of the query pairs named `name`, in order.
Param(h, name) ==
  LET hits == SelectSeq(h.query, LAMBDA kv : kv[1] = name)
  IN [i \in DOMAIN hits |-> hits[i][2]]

\* An object with one member, an array.
SoleKeyArray(b) == b.t = "obj" /\ Len(b.o) = 1 /\ b.o[1][2].t = "arr"

WellFormed(T, j) == j.t = "obj" /\ De(TStruct(T), j).ok

Deserialized(T, arr) == Each([i \in DOMAIN arr |-> De(TStruct(T), arr[i]).val])

\* C1: get on a 200 response whose body is an object with a sole key mapping
\* to an empty array returns Ok(None).
C1_GetEmptyArrayIsNone ==
  (/\ Answered
   /\ call.kind = "get"
   /\ resp.status = 200
   /\ SoleKeyArray(resp.body)
   /\ resp.body.o[1][2].a = << >>)
  => result = Ok(None)

\* C2: get on a 200 response whose body is an object with a sole key mapping
\* to an array of exactly one well-formed T returns Ok(Some(item)), item being
\* that element deserialized as T.
C2_GetOneElementIsSome ==
  (/\ Answered
   /\ call.kind = "get"
   /\ resp.status = 200
   /\ SoleKeyArray(resp.body)
   /\ Len(resp.body.o[1][2].a) = 1
   /\ WellFormed(call.T, resp.body.o[1][2].a[1]))
  => result = Ok(Some(De(TStruct(call.T), resp.body.o[1][2].a[1]).val))

\* The body is {meta: {after, next}, <key>: [...]}, in either member order.
PagedShape(b) ==
  /\ b.t = "obj"
  /\ Len(b.o) = 2
  /\ \E m, k \in 1..2 :
       /\ m # k
       /\ b.o[m][1] = "meta"
       /\ b.o[m][2].t = "obj"
       /\ De(TStruct("Meta"), b.o[m][2]).ok
       /\ b.o[k][1] # "meta"
       /\ b.o[k][2].t = "arr"

ListOf(b) == b.o[CHOOSE k \in 1..2 : b.o[k][1] # "meta"][2].a

\* The body is {meta: {after, next}, <key>: [well-formed T, ...]}.
PagedEnvelope(T, b) ==
  /\ PagedShape(b)
  /\ \A i \in DOMAIN ListOf(b) : WellFormed(T, ListOf(b)[i])

AllObjects(arr) == \A i \in DOMAIN arr : arr[i].t = "obj"

\* C3: search on a body {meta: {after, next}, <key>: [n well-formed objects]}
\* returns an envelope whose values() is Some(list) of exactly those n objects
\* deserialized, in array order.
C3_SearchValuesInOrder ==
  (/\ Answered
   /\ call.kind = "search"
   /\ PagedShape(resp.body))
  => LET list == ListOf(resp.body)
         each == Each([i \in DOMAIN list |-> De(TStruct(call.T), list[i])])
         want == Some(Each([i \in DOMAIN list |-> each[i].val]))
     IN (AllObjects(list) /\ \A i \in DOMAIN list : each[i].ok)
        => /\ result.tag = "Ok"
           /\ ValuesOutcomes(result.val) = { want }
           /\ vals.called => vals.out = want

\* C3 witness: values() has returned the two routes of a two-element page, the
\* one with id 1 first.
C3_Witness ==
  /\ Answered
  /\ call.kind = "search"
  /\ call.T = "Route"
  /\ PagedEnvelope(call.T, resp.body)
  /\ Len(ListOf(resp.body)) = 2
  /\ vals.called
  /\ vals.out.some
  /\ Len(vals.out.val) = 2
  /\ vals.out.val[1].id = 1
  /\ vals.out.val[2].id = 2

\* C4: the URL a call requests starts with the base_url of the Request it is
\* made on (the production endpoint unless with_base_url replaced it).
C4_UrlStartsWithBaseUrl ==
  pc = "sent" => StartsWith(http.url, call.self.base_url)

\* C5: search_next() returns the next page or an error value; it never panics.
C5_SearchNextNeverPanics ==
  next.tag \in { "Pending", "Ok", "Err" } /\ pc # "panicked"

\* C6: the top-level search(api_key, query) issues the request of
\* Request::new().search(query, api_key): apikey = its first argument,
\* search = its second.
C6_SearchWrapperArguments ==
  (pc = "sent" /\ call.fn = "search")
  => /\ http = Request_search(RequestNew, call.T, call.text, call.api_key)
     /\ Param(http, "apikey") = << call.api_key >>
     /\ Param(http, "search") = << call.text >>

\* C7: the top-level get(api_key, key) issues the request of
\* Request::new().get(key, api_key): apikey = its first argument, the URL ends
\* with "/" and its second.
C7_GetWrapperArguments ==
  (pc = "sent" /\ call.fn = "get")
  => /\ http = Request_get(RequestNew, call.T, call.text, call.api_key)
     /\ Param(http, "apikey") = << call.api_key >>
     /\ http.url = TRANSITLAND_BASE_URL \o "/" \o Noun(call.T) \o "/" \o call.text

\* C8: a response with a non-2xx status makes the call fail with a Transport
\* error, whatever the body.
C8_Non2xxIsTransportError ==
  (Answered /\ ~(resp.status \in 200..299)) => result = Err("Transport")

\* An object without one of T's required members.
LacksRequired(T, j) ==
  j.t = "obj" /\ \E key \in RequiredKeys(T) : \A i \in DOMAIN j.o : j.o[i][1] # key

\* Some list of the envelope holds a resource object without a required member.
HoldsLacking(T, b) ==
  /\ b.t = "obj"
  /\ \E i \in DOMAIN b.o :
       /\ b.o[i][1] # "meta"
       /\ b.o[i][2].t = "arr"
       /\ \E e \in DOMAIN b.o[i][2].a : LacksRequired(T, b.o[i][2].a[e])

\* C9: a response whose resource object lacks a required field of the requested
\* type (in the envelope's list, or as the body of a get) makes the call fail
\* with a Deserialization error.
C9_MissingRequiredFieldFails ==
  (/\ Answered
   /\ \/ HoldsLacking(call.T, resp.body)
      \/ call.kind = "get" /\ LacksRequired(call.T, resp.body))
  => result = Err("Deserialization")

\* C9 witness: a search answered with a list whose only object is a Feed
\* without onestop_id.
C9_Witness ==
  /\ Answered
  /\ call.kind = "search"
  /\ call.T = "Feed"
  /\ resp.body = Envelope(<< MetaFull >>, "feeds",
                          << Drop(Resource("Feed", 1), "onestop_id") >>)
  /\ result = Err("Deserialization")

SpecWireTable ==
  [GTFS |-> "gtfs", GTFSRealtime |-> "gtfs-rt", GBFS |-> "gbfs", MDS |-> "mds"]

\* C10: a Spec value is written as its wire string (gtfs, gtfs-rt, gbfs, mds),
\* reading that back gives the same variant, and no other variant is read from
\* that wire string.
C10_SpecRoundTrip ==
  /\ serde.wire # Pending => serde.wire = JStr(SpecWireTable[serde.value])
  /\ serde.back # Pending => serde.back = DeOk(serde.value)
  /\ (serde.wire # Pending /\ serde.parsed # Pending /\ serde.input = serde.wire)
       => serde.parsed = DeOk(serde.value)
  /\ (serde.parsed # Pending /\ serde.parsed.ok)
       => serde.input = JStr(SpecWireTable[serde.parsed.val])

\* C10 witness: GTFSRealtime went out as "gtfs-rt" and came back.
C10_Witness ==
  /\ serde.value = "GTFSRealtime"
  /\ serde.wire = JStr("gtfs-rt")
  /\ serde.back = DeOk("GTFSRealtime")

EndsWith(s, suffix) ==
  Len(suffix) <= Len(s) /\ SubSeq(s, Len(s) - Len(suffix) + 1, Len(s)) = suffix

IsDigit(c) == \E d \in 0..9 : CharAt(Digits, d + 1) = c

DigitValue(c) == CHOOSE d \in 0..9 : CharAt(Digits, d + 1) = c

\* A decimal numeral: digits only, no leading zero but for "0" itself.
IsDecimal(s) ==
  /\ Len(s) >= 1
  /\ \A i \in 1..Len(s) : IsDigit(CharAt(s, i))
  /\ Len(s) > 1 => CharAt(s, 1) # "0"

RECURSIVE DecimalValue(_)
\* The number a decimal numeral denotes.
DecimalValue(s) ==
  IF Len(s) = 1 THEN DigitValue(s)
  ELSE DecimalValue(SubSeq(s, 1, Len(s) - 1)) * 10 + DigitValue(CharAt(s, Len(s)))

NounTable ==
  [Feed |-> "feeds", FeedVersion |-> "feed_versions", Agency |-> "agencies",
   Operator |-> "operators", Route |-> "routes", Stop |-> "stops"]

\* C11: for each of Feed, FeedVersion, Agency, Operator, Route and Stop the
\* path a call gets from query_path(()) (a search) or by_id_path(()) (a get) is
\* the type's collection noun, and no two of the types have the same path.
C11_UnitPathsAreNouns ==
  /\ (pc = "sent" /\ call.T \in UnitTypes) => call.path = NounTable[call.T]
  /\ \A A, B \in UnitTypes :
       A # B => /\ query_path(A, UnitParent) # query_path(B, UnitParent)
                /\ by_id_path(A, UnitParent) # by_id_path(B, UnitParent)

\* C11 witness: a get of a Stop got "stops" from by_id_path(()).
C11_Witness ==
  /\ pc = "sent"
  /\ call.fn = "Request::get"
  /\ call.T = "Stop"
  /\ call.path = "stops"

\* path is "routes/<n in decimal>/trips".
IsTripPath(path, n) ==
  /\ StartsWith(path, "routes/")
  /\ EndsWith(path, "/trips")
  /\ Len(path) > Len("routes/") + Len("/trips")
  /\ LET mid == SubSeq(path, Len("routes/") + 1, Len(path) - Len("/trips"))
     IN IsDecimal(mid) /\ DecimalValue(mid) = n

\* C12: for Trip and a route_id, the path a call gets (query_path(route_id)
\* for a search, by_id_path(route_id) for a get) is "routes/{route_id}/trips",
\* route_id in decimal, and the two functions agree on that route_id.
C12_TripPathsNestUnderRoute ==
  (pc = "sent" /\ call.T = "Trip")
  => /\ IsTripPath(call.path, call.parent.n)
     /\ query_path("Trip", call.parent) = by_id_path("Trip", call.parent)

\* C12 witness: a get of a Trip under a route with a two-digit id.
C12_Witness ==
  /\ pc = "sent"
  /\ call.kind = "get"
  /\ call.T = "Trip"
  /\ call.parent.n >= 10
  /\ StartsWith(call.path, "routes/1")
  /\ EndsWith(call.path, "/trips")

\* v times ten plus the digit d, over the limbs (modulo 2^64).
TimesTenPlus(v, d) ==
  LET t4 == v[4] * 10 + d
      t3 == v[3] * 10 + t4 \div 65536
      t2 == v[2] * 10 + t3 \div 65536
      t1 == v[1] * 10 + t2 \div 65536
  IN << t1 % 65536, t2 % 65536, t3 % 65536, t4 % 65536 >>

RECURSIVE U64Value(_)
\* The u64 a decimal numeral denotes.
U64Value(s) ==
  IF Len(s) = 1 THEN U64(DigitValue(s))
  ELSE TimesTenPlus(U64Value(SubSeq(s, 1, Len(s) - 1)), DigitValue(CharAt(s, Len(s))))

\* The query pairs named `name` are one pair, its value the u64 v in decimal.
DecimalParam(h, name, v) ==
  /\ Len(Param(h, name)) = 1
  /\ IsDecimal(Param(h, name)[1])
  /\ Len(Param(h, name)[1]) <= 20
  /\ U64Value(Param(h, name)[1]) = v

\* C13: a Request::search or Request::search_with_parent call sends a GET to
\* the path query_path(parent) with exactly three query parameters: apikey =
\* the api_key argument, search = the query argument, limit = the limit of the
\* Request it is called on.
C13_SearchRequestShape ==
  (pc = "sent" /\ call.fn \in { "Request::search", "Request::search_with_parent" })
  => /\ call.path = query_path(call.T, call.parent)
     /\ EndsWith(http.url, "/" \o call.path)
     /\ Len(http.query) = 3
     /\ Param(http, "apikey") = << call.api_key >>
     /\ Param(http, "search") = << call.text >>
     /\ DecimalParam(http, "limit", call.self.limit)

\* C13 witness: a search of the trips of route 0 for "bus" on a Request whose
\* limit was set to u64::MAX.
C13_Witness ==
  /\ pc = "sent"
  /\ call.fn = "Request::search_with_parent"
  /\ call.T = "Trip"
  /\ call.parent.n = 0
  /\ req.limit = U64_MAX
  /\ http.url = "https://transit.land/api/v2/rest/routes/0/trips"
  /\ http.query = << <<"apikey", "KEY">>, <<"search", "bus">>,
                     <<"limit", "18446744073709551615">> >>

\* C14: a Request::get or Request::get_with_parent call sends a GET to the
\* path by_id_path(parent), "/" and the key argument, with exactly two query
\* parameters: apikey = the api_key argument and limit = the limit of the
\* Request it is called on; there is no search parameter.
C14_GetRequestShape ==
  (pc = "sent" /\ call.fn \in { "Request::get", "Request::get_with_parent" })
  => /\ call.path = by_id_path(call.T, call.parent)
     /\ EndsWith(http.url, "/" \o call.path \o "/" \o call.text)
     /\ Len(http.query) = 2
     /\ Param(http, "apikey") = << call.api_key >>
     /\ DecimalParam(http, "limit", call.self.limit)
     /\ Param(http, "search") = << >>

\* C14 witness: a get of the route "bus" on a Request whose limit was set to 0.
C14_Witness ==
  /\ pc = "sent"
  /\ call.fn = "Request::get"
  /\ call.T = "Route"
  /\ req.limit = U64(0)
  /\ http.url = "https://transit.land/api/v2/rest/routes/bus"
  /\ http.query = << <<"apikey", "KEY">>, <<"limit", "0">> >>

\* C15: Request::new() yields spec = GTFS, no pagination cursor, limit = 20
\* and base URL = https://transit.land/api/v2/rest, both when the caller builds
\* a Request and when the top-level search and get build theirs.
C15_NewHasDefaults ==
  /\ [][New => req' = [spec |-> "GTFS", after |-> None, limit |-> U64(20),
                       base_url |-> "https://transit.land/api/v2/rest"]]_vars
  /\ []((pc = "sent" /\ call.fn \in { "search", "get" })
         => call.self = [spec |-> "GTFS", after |-> None, limit |-> U64(20),
                         base_url |-> "https://transit.land/api/v2/rest"])

\* C15 witness: the caller's own Request has another limit, and the Request
\* the top-level search made with Request::new() has the defaults.
C15_Witness ==
  /\ pc = "sent"
  /\ call.fn = "search"
  /\ req.limit = U64(0)
  /\ call.self.spec = "GTFS"
  /\ call.self.after = None
  /\ call.self.limit = U64(20)
  /\ call.self.base_url = "https://transit.land/api/v2/rest"

\* C20: with_spec sets spec to its argument and leaves cursor, limit and base
\* URL as they were; with_limit sets limit and leaves spec, cursor and base URL;
\* with_base_url sets the base URL and leaves spec, cursor and limit.
C20_SettersChangeOwnField ==
  [][/\ \A spec \in SpecSet :
          Configure(with_spec(req, spec))
          => /\ req'.spec = spec
             /\ req'.after = req.after
             /\ req'.limit = req.limit
             /\ req'.base_url = req.base_url
     /\ \A limit \in Limits :
          Configure(with_limit(req, limit))
          => /\ req'.limit = limit
             /\ req'.spec = req.spec
             /\ req'.after = req.after
             /\ req'.base_url = req.base_url
     /\ \A base_url \in BaseUrls :
          Configure(with_base_url(req, base_url))
          => /\ req'.base_url = base_url
             /\ req'.spec = req.spec
             /\ req'.after = req.after
             /\ req'.limit = req.limit]_vars

\* C20 witness: all three setters have been used; each field holds the value
\* set for it and the cursor is still absent.
C20_Witness ==
  /\ pc = "idle"
  /\ req.spec = "MDS"
  /\ req.limit = U64_MAX
  /\ req.base_url = "http://localhost:8080"
  /\ req.after = None

\* The server's answer cannot be a result: nothing was received, the body is
\* not JSON, or a listed resource lacks a required member.
Unusable ==
  \/ resp.kind \in { "send failed", "body failed" }
  \/ resp.kind = "response"
       /\ (resp.body.t = "invalid" \/ HoldsLacking(call.T, resp.body))

\* C17: a call hands exactly one GET to the HTTP client; when sending fails or
\* the body does not deserialize the call returns one error value and nothing
\* else (no envelope to read values from), and the only step after an error is
\* the caller dropping it: no GET follows within the call.
C17_OneGetNoRetry ==
  /\ [](/\ pc = "sent" => call.gets = 0
        /\ pc \in { "awaiting", "done", "panicked" } => call.gets = 1
        /\ (Returned /\ Unusable)
             => /\ result.tag = "Err"
                /\ DOMAIN result = { "tag", "kind" }
                /\ vals = NotCalled
                /\ next = Pending)
  /\ [][(pc = "done" /\ result.tag = "Err")
         => (pc' = "idle" /\ call' = NoCall /\ http' = NoHttp)]_vars

\* C17 witness: a search whose send failed has returned a Transport error
\* after its one GET.
C17_Witness ==
  /\ pc = "done"
  /\ call.kind = "search"
  /\ call.gets = 1
  /\ resp.kind = "send failed"
  /\ result = Err("Transport")

\* The positions of the members of b other than `meta`.
RestAt(b) == { i \in DOMAIN b.o : b.o[i][1] # "meta" }

\* The array under the last member of b other than `meta`.
LastList(b) ==
  b.o[CHOOSE i \in RestAt(b) : \A h \in RestAt(b) : h <= i][2].a

\* C18: when the body of a search has more than one key besides `meta`,
\* values() returns the list under the key that comes last in the body.
C18_ValuesTakesLastKey ==
  (/\ Answered
   /\ call.kind = "search"
   /\ result.tag = "Ok"
   /\ Cardinality(RestAt(resp.body)) > 1
   /\ vals.called)
  => vals.out = Some(Deserialized(call.T, LastList(resp.body)))

\* The body is {<key>: [...]} and nothing else.
BareShape(b) == SoleKeyArray(b) /\ b.o[1][1] # "meta"

\* C19: a search body with no `meta` key and one resource key (a list of
\* well-formed resources) deserializes, with meta absent, and values() is the
\* list of that key, the same as values() of the same body with a `meta`
\* member added.
C19_MetaIsOptional ==
  (/\ Answered
   /\ call.kind = "search"
   /\ BareShape(resp.body))
  => LET list == resp.body.o[1][2].a
         each == Each([i \in DOMAIN list |-> De(TStruct(call.T), list[i])])
         want == Some(Each([i \in DOMAIN list |-> each[i].val]))
         paged == DeSearchResponse(call.T,
                                   Envelope(<< MetaFull >>, resp.body.o[1][1], list))
     IN (AllObjects(list) /\ \A i \in DOMAIN list : each[i].ok)
        => /\ result.tag = "Ok"
           /\ result.val.meta = None
           /\ ValuesOutcomes(result.val) = { want }
           /\ vals.called => vals.out = want
           /\ paged.ok
           /\ paged.val.meta # None
           /\ ValuesOutcomes(paged.val) = ValuesOutcomes(result.val)

\* C19 witness: values() has returned both routes of a body that is just
\* {"routes": [route 1, route 2]}.
C19_Witness ==
  /\ Answered
  /\ call.kind = "search"
  /\ resp.body = Envelope(<< >>, "routes", << Resource("Route", 1), Resource("Route", 2) >>)
  /\ result.tag = "Ok"
  /\ result.val.meta = None
  /\ vals.called
  /\ vals.out.some
  /\ Len(vals.out.val) = 2

\* The Request a site in flight was called on.
SiteSelf(s) == IF sites[s].pc = "sent" THEN sites[s].call.self ELSE sites[s].self

\* C16: with several search and get calls in flight on one shared Request, no
\* step of a call changes the Request (so every call in flight still sees the
\* Request it was called on), a step of one call leaves the other calls as
\* they were, and the GET of each call carries its own arguments and the
\* shared Request's limit.
C16_SharedRequestUntouched ==
  /\ [][(\E s \in Sites : sites'[s] # sites[s]) => req' = req]_vars
  /\ [][\A s \in Sites :
          sites'[s] # sites[s] => \A o \in Sites \ { s } : sites'[o] = sites[o]]_vars
  /\ [](\A s \in Sites :
          /\ sites[s].pc # "idle" => SiteSelf(s) = req
          /\ sites[s].pc = "sent"
               => /\ EndsWith(sites[s].http.url,
                              IF sites[s].call.kind = "search"
                              THEN "/" \o sites[s].call.path
                              ELSE "/" \o sites[s].call.path \o "/" \o sites[s].call.text)
                  /\ Param(sites[s].http, "apikey") = << sites[s].call.api_key >>
                  /\ Param(sites[s].http, "search")
                       = IF sites[s].call.kind = "search"
                         THEN << sites[s].call.text >> ELSE << >>
                  /\ DecimalParam(sites[s].http, "limit", req.limit))

\* C16 witness: on a Request with limit 0, a search for "bus" is about to go
\* out with limit=0 while a get another site made on the same Request has
\* returned.
C16_Witness ==
  /\ req.limit = U64(0)
  /\ \E s, o \in Sites :
       /\ sites[s].pc = "sent"
       /\ sites[s].call.kind = "search"
       /\ sites[s].call.text = "bus"
       /\ Param(sites[s].http, "limit") = << "0" >>
       /\ sites[o].pc = "done"
       /\ sites[o].kind = "get"
       /\ sites[o].self = req

RequestMethods ==
  { "Request::search", "Request::search_with_parent",
    "Request::get", "Request::get_with_parent" }

\* C21: with_limit stores whatever u64 it is given, 0 and u64::MAX included,
\* and the search and get calls made on the Request afterwards send that value
\* in decimal as their one `limit` parameter ("0" for 0,
\* "18446744073709551615" for u64::MAX).
C21_LimitSentVerbatim ==
  /\ [][\A limit \in Limits :
          Configure(with_limit(req, limit)) => req'.limit = limit]_vars
  /\ []((pc = "sent" /\ call.fn \in RequestMethods)
         => /\ call.self = req
            /\ DecimalParam(http, "limit", req.limit)
            /\ req.limit = U64(0) => Param(http, "limit") = << "0" >>
            /\ req.limit = U64_MAX
                 => Param(http, "limit") = << "18446744073709551615" >>)

\* C21 witness: a get on a Request whose limit was set to u64::MAX goes out
\* with limit=18446744073709551615.
C21_Witness ==
  /\ pc = "sent"
  /\ call.fn = "Request::get_with_parent"
  /\ req.limit = U64_MAX
  /\ Param(http, "limit") = << "18446744073709551615" >>

\* The GET the Request method of call c builds when called on `self` with the
\* arguments of c.
Issued(c, self) ==
  CASE c.fn = "Request::search_with_parent" ->
         search_with_parent(self, c.T, c.parent, c.text, c.api_key)
    [] c.fn = "Request::get_with_parent" ->
         get_with_parent(self, c.T, c.parent, c.text, c.api_key)
    [] c.fn = "Request::search" -> Request_search(self, c.T, c.text, c.api_key)
    [] c.fn = "Request::get" -> Request_get(self, c.T, c.text, c.api_key)

\* C22: the GET of a search or get call is the one the same call builds on a
\* Request that differs only in spec, whatever that spec; it has no query
\* parameter besides apikey, search and limit; and the cursor of the caller's
\* Request, and of the Request any call is made on, is always absent.
C22_SpecAndCursorUnused ==
  /\ req.after = None
  /\ pc = "sent" => call.self.after = None
  /\ (pc = "sent" /\ call.fn \in RequestMethods)
       => /\ \A spec \in SpecSet : Issued(call, with_spec(call.self, spec)) = http
          /\ \A i \in DOMAIN http.query :
               http.query[i][1] \in { "apikey", "search", "limit" }

\* C22 witness: a search on a Request whose spec was set to GBFS goes out as
\* it does on the Request of Request::new().
C22_Witness ==
  /\ pc = "sent"
  /\ call.fn = "Request::search"
  /\ req.spec = "GBFS"
  /\ req.after = None
  /\ req.limit = U64(DefaultLimit)
  /\ http = Request_search(RequestNew, call.T, call.text, call.api_key)

\* The body has a `meta` object without `after` or without `next`.
MetaLacking(b) ==
  \E i \in DOMAIN b.o :
    /\ b.o[i][1] = "meta"
    /\ b.o[i][2].t = "obj"
    /\ \E key \in { "after", "next" } :
         \A m \in DOMAIN b.o[i][2].o : b.o[i][2].o[m][1] # key

\* v is not a list of T: not an array, or an array with an element that is
\* not an object or lacks a required member of T.
NotListOf(T, v) ==
  \/ v.t # "arr"
  \/ \E e \in DOMAIN v.a : v.a[e].t # "obj" \/ LacksRequired(T, v.a[e])

\* C23: a search whose body is an object with a `meta` object lacking `after`
\* or `next`, or with a key other than `meta` whose value is not a list of the
\* requested type, returns an error and no envelope to read values from; and
\* on an envelope that did deserialize, values() is None exactly when the body
\* has no key other than `meta`.
C23_EnvelopeFailsWholeOrListsAll ==
  (/\ Answered
   /\ call.kind = "search"
   /\ resp.body.t = "obj")
  => /\ (\/ MetaLacking(resp.body)
         \/ \E i \in RestAt(resp.body) : NotListOf(call.T, resp.body.o[i][2]))
          => /\ result.tag = "Err"
             /\ vals = NotCalled
     /\ result.tag = "Ok"
          => /\ (None \in ValuesOutcomes(result.val)) <=> (RestAt(resp.body) = {})
             /\ (RestAt(resp.body) = {}) => ValuesOutcomes(result.val) = { None }
             /\ vals.called => ((vals.out = None) <=> (RestAt(resp.body) = {}))

\* C23 witness: values() has returned None on the envelope of a body that is
\* just {"meta": {after, next}}.
C23_Witness ==
  /\ Answered
  /\ call.kind = "search"
  /\ resp.body = JObj(<< << "meta", MetaFull >> >>)
  /\ result.tag = "Ok"
  /\ vals.called
  /\ vals.out = None

====
